---- MODULE Spec2Model ----
(***************************************************************************)
(* Model of the Lafayette College information assistant (src/main.py):     *)
(* the statistic extractor, the page cache, the page scraper, the URL      *)
(* router, the aggregator search_lafayette_edu and the Streamlit chat      *)
(* handler.  Texts and queries are sequences of one-character strings.     *)
(***************************************************************************)
EXTENDS Integers, Sequences, FiniteSets, TLC

VARIABLES
    now,          \* datetime.utcnow(), in hours
    cache,        \* _SCRAPE_CACHE: url -> [data, ts]
    messages,     \* st.session_state.messages
    pc,           \* where the session is: "idle", "routing", "scraping", "done", "llm"
    caller,       \* who runs search_lafayette_edu: "ui" (chatbot) or "api"
    query,        \* search_lafayette_edu's query
    max_pages,    \* search_lafayette_edu's max_pages
    urls,         \* search_lafayette_edu's urls
    idx,          \* how many of urls[:max_pages] the loop has been through
    scraped,      \* search_lafayette_edu's scraped
    payload,      \* what the last search_lafayette_edu returned
    results,      \* history: what each scrape_url of the running call returned
    gets,         \* history: the page GETs of the running call, in order
    googleReqs,   \* history: the search engine requests of the running call
    last,         \* history: the last scrape_url call of the running search: its
                  \* URL, whether it issued a GET, what it returned, the cache
                  \* and the URL's last stored result before it
    lastStore,    \* history: url -> the last result scrape_url stored, and when
    calls,        \* how many searches have been entered
    inText, out1, out2, epc,     \* extract_stats_blob: its text, two results
    rq, rresp, routed, rpc       \* route_urls_by_query: its query, the search
                                 \* engine's response, its result

svars == <<now, cache, messages, pc, caller, query, max_pages, urls, idx, scraped,
           payload, results, gets, googleReqs, last, lastStore, calls>>
evars == <<inText, out1, out2, epc>>
rvars == <<rq, rresp, routed, rpc>>
vars == <<svars, evars, rvars>>

----------------------------------------------------------------------------
(* Characters and strings                                                   *)

Upper == <<"A", "B", "C", "D", "E", "F", "G", "H", "I", "J", "K", "L", "M",
           "N", "O", "P", "Q", "R", "S", "T", "U", "V", "W", "X", "Y", "Z">>
Lower == <<"a", "b", "c", "d", "e", "f", "g", "h", "i", "j", "k", "l", "m",
           "n", "o", "p", "q", "r", "s", "t", "u", "v", "w", "x", "y", "z">>
Digits == {"0", "1", "2", "3", "4", "5", "6", "7", "8", "9"}
Spaces == {" ", "\t"}

\* the upper case letters and their lower case
LowerOf == [c \in { Upper[i] : i \in 1..26 } |-> Lower[CHOOSE i \in 1..26 : Upper[i] = c]]
Letters == { Lower[i] : i \in 1..26 }

\* str.lower() on one character, and the case folding of re.I
LowerChar(c) == IF c \in DOMAIN LowerOf THEN LowerOf[c] ELSE c

\* str.lower()
LowerStr(s) == [i \in 1..Len(s) |-> LowerChar(s[i])]

IsDigit(c) == c \in Digits
IsSpace(c) == c \in Spaces
\* \w of the re module
IsWord(c) == IsDigit(c) \/ c = "_" \/ LowerChar(c) \in Letters

\* the character at position i, "" outside the text
At(t, i) == IF i \in 1..Len(t) THEN t[i] ELSE ""

\* \b at the gap before position i
Boundary(t, i) == IsWord(At(t, i - 1)) # IsWord(At(t, i))

RECURSIVE DigitRun(_, _)
\* the number of consecutive digits from position i on
DigitRun(t, i) == IF IsDigit(At(t, i)) THEN 1 + DigitRun(t, i + 1) ELSE 0

RECURSIVE SpaceRun(_, _)
\* what a greedy \s* or \s+ consumes from position i on
SpaceRun(t, i) == IF IsSpace(At(t, i)) THEN 1 + SpaceRun(t, i + 1) ELSE 0

\* a literal of a pattern as a sequence of character classes
Lit(s) == [i \in 1..Len(s) |-> {s[i]}]
\* [- ]
HS == <<{"-", " "}>>

\* the pattern (classes of lower case characters) matches at position i, re.I
PatAt(t, i, pat) ==
    /\ i >= 1
    /\ i + Len(pat) - 1 <= Len(t)
    /\ \A j \in 1..Len(pat) : LowerChar(t[i + j - 1]) \in pat[j]

\* w in s
Contains(s, w) ==
    \E i \in 1..(Len(s) - Len(w) + 1) : SubSeq(s, i, i + Len(w) - 1) = w

RECURSIVE RemoveChar(_, _)
\* s.replace(c, "") for a one-character c
RemoveChar(s, c) ==
    IF s = <<>> THEN <<>>
    ELSE IF Head(s) = c THEN RemoveChar(Tail(s), c)
    ELSE <<Head(s)>> \o RemoveChar(Tail(s), c)

RECURSIVE ReplaceStr(_, _, _)
\* s.replace(old, new): left to right, not overlapping, case-sensitive
ReplaceStr(s, old, new) ==
    IF Len(s) < Len(old) THEN s
    ELSE IF SubSeq(s, 1, Len(old)) = old
         THEN new \o ReplaceStr(SubSeq(s, Len(old) + 1, Len(s)), old, new)
         ELSE <<Head(s)>> \o ReplaceStr(Tail(s), old, new)

S_undergraduates == <<"u", "n", "d", "e", "r", "g", "r", "a", "d", "u", "a", "t", "e", "s">>
S_undergraduate == <<"u", "n", "d", "e", "r", "g", "r", "a", "d", "u", "a", "t", "e">>
S_students == <<"s", "t", "u", "d", "e", "n", "t", "s">>
S_student == <<"s", "t", "u", "d", "e", "n", "t">>
S_to == <<"t", "o">>
S_faculty == <<"f", "a", "c", "u", "l", "t", "y">>
S_ratio == <<"r", "a", "t", "i", "o">>
S_average == <<"a", "v", "e", "r", "a", "g", "e">>
S_avg == <<"a", "v", "g">>
S_class == <<"c", "l", "a", "s", "s">>
S_size == <<"s", "i", "z", "e">>
S_graduates == <<"g", "r", "a", "d", "u", "a", "t", "e", "s">>
S_graduate == <<"g", "r", "a", "d", "u", "a", "t", "e">>
SP == <<" ">>

----------------------------------------------------------------------------
(* extract_stats_blob                                                       *)

\* the leftmost of the positions where a pattern matches, 0 when there is
\* none: re.search
FirstPos(at) == IF at = {} THEN 0 ELSE CHOOSE i \in at : \A j \in at : i <= j

\* the position after a greedy \s* that starts at i
SkipSpaces(t, i) == i + SpaceRun(t, i)

Min(a, b) == IF a < b THEN a ELSE b

\* one of the alternatives matches at i and a \b follows it
AltThenBoundary(t, i, alts) ==
    \E a \in alts : PatAt(t, i, a) /\ Boundary(t, i + Len(a))

\* \b before and after the n digits at i, then \s+(?:alts)\b
CountTail(t, i, n, alts) ==
    /\ Boundary(t, i)
    /\ Boundary(t, i + n)
    /\ SpaceRun(t, i + n) >= 1
    /\ AltThenBoundary(t, SkipSpaces(t, i + n), alts)

\* \b(\d{lo,hi})\b\s+(?:alts)\b at position i: the group is the whole digit
\* run, since a digit on either side of it is no word boundary
CountMatch(t, i, lo, hi, alts) ==
    /\ DigitRun(t, i) \in lo..hi
    /\ CountTail(t, i, DigitRun(t, i), alts)

\* group(1) of the leftmost match of the count pattern, <<>> without a match
CountGroup(t, at) ==
    IF at = {} THEN <<>> ELSE SubSeq(t, FirstPos(at), FirstPos(at) + DigitRun(t, FirstPos(at)) - 1)

UndergradAlts ==
    { Lit(S_undergraduates), Lit(S_undergraduate \o SP \o S_students), Lit(S_students) }

\* r"\b(\d{3,5})\b\s+(?:undergraduates|undergraduate students|students)\b"
UndergradMatch(t, i) == CountMatch(t, i, 3, 5, UndergradAlts)

GradAlts == { Lit(S_graduate \o SP \o S_students), Lit(S_graduates) }

\* r"\b(\d{2,5})\b\s+(?:graduate students|graduates)\b"
GradMatch(t, i) == CountMatch(t, i, 2, 5, GradAlts)

\* (?:student[- ]to[- ]faculty|student[- ]faculty|faculty[- ]student)
RatioPhrases ==
    { Lit(S_student) \o HS \o Lit(S_to) \o HS \o Lit(S_faculty),
      Lit(S_student) \o HS \o Lit(S_faculty),
      Lit(S_faculty) \o HS \o Lit(S_student) }

\* [:to] is a character class: one of ':', 't', 'o'
RatioSeparator == {":", "t", "o"}

\* (?:...)\s*ratio at position ph
RatioLabel(t, ph) ==
    \E p \in RatioPhrases :
        PatAt(t, ph, p) /\ PatAt(t, SkipSpaces(t, ph + Len(p)), Lit(S_ratio))

\* \d{1,2} taking d2 digits at n2, the group ends, \s* and the label follow:
\* the position of the group's last character, 0 without a match
RatioSecond(t, n2, d2) ==
    IF DigitRun(t, n2) >= d2 /\ RatioLabel(t, SkipSpaces(t, n2 + d2))
    THEN n2 + d2 - 1 ELSE 0

\* [:to]\s* at position sep, and the rest
RatioFromSeparator(t, sep, d2) ==
    IF LowerChar(At(t, sep)) \in RatioSeparator
    THEN RatioSecond(t, SkipSpaces(t, sep + 1), d2) ELSE 0

\* the ratio pattern at i with d1 and d2 digits taken by the two \d{1,2}: the
\* position of the last character of group(1), 0 without a match
RatioEndWith(t, i, d1, d2) ==
    IF DigitRun(t, i) >= d1 THEN RatioFromSeparator(t, SkipSpaces(t, i + d1), d2) ELSE 0

\* the ways the two \d{1,2} can match at i
RatioWays(t, i) == { w \in (1..2) \X (1..2) : RatioEndWith(t, i, w[1], w[2]) > 0 }

RatioMatch(t, i) == RatioWays(t, i) # {}

\* the way the greedy \d{1,2} settle on: two digits when the rest still matches
GreedyWay(ws) ==
    CHOOSE w \in ws : \A v \in ws : w[1] > v[1] \/ (w[1] = v[1] /\ w[2] >= v[2])

\* group(1) of the ratio match at i
RatioGroupAt(t, i, w) == SubSeq(t, i, RatioEndWith(t, i, w[1], w[2]))

\* ratio = m.group(1).replace(" ", ""); ratio = ratio.replace("to", ":")
NormalizeRatio(g) == ReplaceStr(RemoveChar(g, " "), S_to, <<":">>)

\* the normalized ratio of the leftmost match, <<>> without a match
RatioValue(t, at) ==
    IF at = {} THEN <<>>
    ELSE NormalizeRatio(RatioGroupAt(t, FirstPos(at), GreedyWay(RatioWays(t, FirstPos(at)))))

\* (\d{1,2}) at position g: the position of the group, 0 without a digit
ClassSizeDigits(t, g) == IF DigitRun(t, g) >= 1 THEN g ELSE 0

\* size\s*(\d{1,2}) at position z
ClassSizeSize(t, z) ==
    IF PatAt(t, z, Lit(S_size)) THEN ClassSizeDigits(t, SkipSpaces(t, z + Len(S_size)))
    ELSE 0

\* class\s+size\s*(\d{1,2}) at position c
ClassSizeClass(t, c) ==
    IF PatAt(t, c, Lit(S_class)) /\ SpaceRun(t, c + Len(S_class)) >= 1
    THEN ClassSizeSize(t, SkipSpaces(t, c + Len(S_class))) ELSE 0

\* \s+class\s+size\s*(\d{1,2}) at position e
ClassSizeRest(t, e) ==
    IF SpaceRun(t, e) >= 1 THEN ClassSizeClass(t, SkipSpaces(t, e)) ELSE 0

\* r"(?:average|avg)\s+class\s+size\s*(\d{1,2})" at position i: the position
\* of the group, 0 without a match
ClassSizeGroupPos(t, i) ==
    IF PatAt(t, i, Lit(S_average)) /\ ClassSizeRest(t, i + Len(S_average)) > 0
    THEN ClassSizeRest(t, i + Len(S_average))
    ELSE IF PatAt(t, i, Lit(S_avg)) THEN ClassSizeRest(t, i + Len(S_avg))
    ELSE 0

ClassSizeMatch(t, i) == ClassSizeGroupPos(t, i) > 0

\* the greedy (\d{1,2}) at position p
ClassSizeGroup(t, p) == SubSeq(t, p, p + Min(2, DigitRun(t, p)) - 1)

\* group(1) of the leftmost match, <<>> without a match
ClassSizeValue(t, at) ==
    IF at = {} THEN <<>> ELSE ClassSizeGroup(t, ClassSizeGroupPos(t, FirstPos(at)))

StatKeys == {"undergrad_enrollment_guess", "student_faculty_ratio_guess",
             "avg_class_size_guess", "grad_enrollment_guess"}

\* what each rule finds in the text: group(1) of its re.search, which is never
\* empty, or <<>> when m is None
RuleValues(text) ==
    [k \in StatKeys |->
        CASE k = "undergrad_enrollment_guess" ->
                CountGroup(text, { i \in 1..Len(text) : UndergradMatch(text, i) })
          [] k = "student_faculty_ratio_guess" ->
                RatioValue(text, { i \in 1..Len(text) : RatioMatch(text, i) })
          [] k = "avg_class_size_guess" ->
                ClassSizeValue(text, { i \in 1..Len(text) : ClassSizeMatch(text, i) })
          [] k = "grad_enrollment_guess" ->
                CountGroup(text, { i \in 1..Len(text) : GradMatch(text, i) })]

\* the keys of the rules that matched, with their values
OnlyMatched(vals) == [k \in { j \in DOMAIN vals : vals[j] # <<>> } |-> vals[k]]

\* the body of extract_stats_blob
ExtractStats(text) == OnlyMatched(RuleValues(text))

----------------------------------------------------------------------------
(* Keyword lists of route_urls_by_query, query words and page texts         *)

\* the trigger words of the stats-ish routing
StatsKeywords ==
    <<
        <<"e", "n", "r", "o", "l", "l", "m", "e", "n", "t">>,
        <<"n", "u", "m", "b", "e", "r", " ", "o", "f", " ", "s", "t", "u", "d", "e", "n", "t", "s">>,
        <<"s", "t", "u", "d", "e", "n", "t", " ", "b", "o", "d", "y">>,
        <<"h", "e", "a", "d", "c", "o", "u", "n", "t">>,
        <<"r", "a", "t", "i", "o">>,
        <<"s", "t", "u", "d", "e", "n", "t", "-", "f", "a", "c", "u", "l", "t", "y">>,
        <<"f", "a", "c", "u", "l", "t", "y", " ", "s", "t", "u", "d", "e", "n", "t">>,
        <<"c", "l", "a", "s", "s", " ", "s", "i", "z", "e">>,
        <<"a", "v", "e", "r", "a", "g", "e", " ", "c", "l", "a", "s", "s">>,
        <<"a", "c", "c", "e", "p", "t", "a", "n", "c", "e", " ", "r", "a", "t", "e">>,
        <<"c", "o", "m", "m", "o", "n", " ", "d", "a", "t", "a", " ", "s", "e", "t">>,
        <<"c", "d", "s">>
    >>

\* the mutant of AdmissionsKeywords: the trigger 'ed' is left out
AdmissionsKeywordsNoEd ==
    <<
        <<"a", "d", "m", "i", "s", "s", "i", "o", "n">>,
        <<"a", "p", "p", "l", "y">>,
        <<"a", "p", "p", "l", "i", "c", "a", "t", "i", "o", "n">>,
        <<"d", "e", "a", "d", "l", "i", "n", "e">>,
        <<"r", "e", "q", "u", "i", "r", "e", "m", "e", "n", "t">>,
        <<"e", "a", "r", "l", "y", " ", "d", "e", "c", "i", "s", "i", "o", "n">>,
        <<"r", "e", "g", "u", "l", "a", "r", " ", "d", "e", "c", "i", "s", "i", "o", "n">>
    >>

\* the trigger words of 'admissions'
AdmissionsKeywords ==
    <<
        <<"a", "d", "m", "i", "s", "s", "i", "o", "n">>,
        <<"a", "p", "p", "l", "y">>,
        <<"a", "p", "p", "l", "i", "c", "a", "t", "i", "o", "n">>,
        <<"d", "e", "a", "d", "l", "i", "n", "e">>,
        <<"r", "e", "q", "u", "i", "r", "e", "m", "e", "n", "t">>,
        <<"e", "d">>,
        <<"e", "a", "r", "l", "y", " ", "d", "e", "c", "i", "s", "i", "o", "n">>,
        <<"r", "e", "g", "u", "l", "a", "r", " ", "d", "e", "c", "i", "s", "i", "o", "n">>
    >>

\* the trigger words of 'financial'
FinancialKeywords ==
    <<
        <<"f", "i", "n", "a", "n", "c", "i", "a", "l">>,
        <<"a", "i", "d">>,
        <<"s", "c", "h", "o", "l", "a", "r", "s", "h", "i", "p">>,
        <<"c", "o", "s", "t">>,
        <<"t", "u", "i", "t", "i", "o", "n">>,
        <<"m", "o", "n", "e", "y">>,
        <<"g", "r", "a", "n", "t">>
    >>

\* the trigger words of 'academics'
AcademicsKeywords ==
    <<
        <<"a", "c", "a", "d", "e", "m", "i", "c">>,
        <<"m", "a", "j", "o", "r">>,
        <<"p", "r", "o", "g", "r", "a", "m">>,
        <<"c", "o", "u", "r", "s", "e">>,
        <<"d", "e", "p", "a", "r", "t", "m", "e", "n", "t">>,
        <<"s", "t", "u", "d", "y">>,
        <<"c", "u", "r", "r", "i", "c", "u", "l", "u", "m">>
    >>

\* the trigger words of 'campus'
CampusKeywords ==
    <<
        <<"c", "a", "m", "p", "u", "s">>,
        <<"l", "i", "f", "e">>,
        <<"s", "t", "u", "d", "e", "n", "t">>,
        <<"h", "o", "u", "s", "i", "n", "g">>,
        <<"d", "i", "n", "i", "n", "g">>,
        <<"c", "l", "u", "b">>,
        <<"o", "r", "g", "a", "n", "i", "z", "a", "t", "i", "o", "n">>
    >>

\* the trigger words of 'about'
AboutKeywords ==
    <<
        <<"a", "b", "o", "u", "t">>,
        <<"h", "i", "s", "t", "o", "r", "y">>,
        <<"m", "i", "s", "s", "i", "o", "n">>,
        <<"o", "v", "e", "r", "v", "i", "e", "w">>,
        <<"g", "l", "a", "n", "c", "e">>,
        <<"w", "h", "y">>
    >>

\* the trigger word of 'president'
PresidentKeywords ==
    <<
        <<"p", "r", "e", "s", "i", "d", "e", "n", "t">>
    >>

\* words of the queries the model runs
Q_hi == <<"h", "i">>
Q_apply == <<"a", "p", "p", "l", "y">>
Q_Deadline == <<"D", "e", "a", "d", "l", "i", "n", "e">>
Q_need == <<"n", "e", "e", "d">>
Q_ED == <<"E", "D">>
Q_aid == <<"a", "i", "d">>
Q_major == <<"m", "a", "j", "o", "r">>
Q_dining == <<"d", "i", "n", "i", "n", "g">>
Q_why == <<"w", "h", "y">>
Q_president == <<"p", "r", "e", "s", "i", "d", "e", "n", "t">>
Q_ratio == <<"r", "a", "t", "i", "o">>
Q_cds == <<"C", "D", "S">>
Q_early_decision == <<"E", "a", "r", "l", "y", " ", "D", "e", "c", "i", "s", "i", "o", "n">>

\* page texts the model's web serves
TxtGlance == <<"2", "5", "0", "0", " ", "s", "t", "u", "d", "e", "n", "t", "s", " ", "1", "0", ":", "1", " ", "s", "t", "u", "d", "e", "n", "t", "-", "f", "a", "c", "u", "l", "t", "y", " ", "r", "a", "t", "i", "o", " ", "a", "v", "g", " ", "c", "l", "a", "s", "s", " ", "s", "i", "z", "e", " ", "1", "8">>
TxtOir == <<"a", "v", "e", "r", "a", "g", "e", " ", "c", "l", "a", "s", "s", " ", "s", "i", "z", "e", " ", "2", "0">>
TxtCds == <<"A", "v", "g", " ", "c", "l", "a", "s", "s", " ", "s", "i", "z", "e", " ", "2", "5", " ", "f", "o", "r", " ", "3", "0", "0", " ", "g", "r", "a", "d", "u", "a", "t", "e", "s">>
TxtPlain == <<"h", "e", "l", "l", "o">>

----------------------------------------------------------------------------
(* URL tables                                                               *)

STATS_PAGES ==
    << "https://about.lafayette.edu/lafayette-at-a-glance/",
       "https://oir.lafayette.edu/",
       "https://oir.lafayette.edu/common-data-set/" >>

LAFAYETTE_URL_MAP ==
    [ admissions |->
        << "https://admissions.lafayette.edu/",
           "https://admissions.lafayette.edu/what-we-look-for/",
           "https://admissions.lafayette.edu/apply/",
           "https://admissions.lafayette.edu/deadlines-and-forms/",
           "https://admissions.lafayette.edu/admissions-visits/" >>,
      financial |->
        << "https://admissions.lafayette.edu/financial-aid/",
           "https://admissions.lafayette.edu/college-costs/" >>,
      academics |->
        << "https://academics.lafayette.edu/",
           "https://academics.lafayette.edu/departments-programs/" >>,
      campus |->
        << "https://campuslife.lafayette.edu/" >>,
      about |->
        << "https://about.lafayette.edu/",
           "https://about.lafayette.edu/lafayette-at-a-glance/",
           "https://about.lafayette.edu/mission-and-history/",
           "https://about.lafayette.edu/why-not/" >>,
      president |->
        << "https://president.lafayette.edu/" >> ]

\* the fallback pages of route_urls_by_query
FallbackPages ==
    << "https://admissions.lafayette.edu/",
       "https://academics.lafayette.edu/",
       "https://about.lafayette.edu/" >>

Range(s) == { s[i] : i \in 1..Len(s) }

\* pages of the site that only the search engine leads to
DeepPages ==
    { "https://news.lafayette.edu/story/",
      "https://registrar.lafayette.edu/calendar/",
      "https://library.lafayette.edu/hours/" }

\* a search result outside the site
ForeignURL == "https://www.example.com/lafayette"

\* the URLs u with "lafayette.edu" in u
LafayetteURLs ==
    Range(STATS_PAGES) \cup Range(FallbackPages) \cup DeepPages
    \cup UNION { Range(LAFAYETTE_URL_MAP[c]) : c \in DOMAIN LAFAYETTE_URL_MAP }

----------------------------------------------------------------------------
(* extract_real_urls_from_google, google_site_search, route_urls_by_query   *)

RECURSIVE DedupFrom(_, _)
\* the elements of s not in seen, each once, in the order of first occurrence
DedupFrom(s, seen) ==
    IF s = <<>> THEN <<>>
    ELSE IF Head(s) \in seen THEN DedupFrom(Tail(s), seen)
    ELSE <<Head(s)>> \o DedupFrom(Tail(s), seen \cup {Head(s)})

\* the mutant of Dedup: no deduplication
DedupNone(s) == s

\* the seen/unique loop
Dedup(s) == DedupFrom(s, {})

\* what the loop over soup.find_all("a", href=True) appends for one anchor:
\* form "redirect" is an href "/url?...q=<target>" (target "" without q),
\* form "direct" an href "<target>" that starts with http, form "other" any other
AnchorURLs(a) ==
    IF a.form = "redirect"
    THEN IF a.target # "" /\ a.target \in LafayetteURLs THEN <<a.target>> ELSE <<>>
    ELSE IF a.form = "direct" /\ a.target \in LafayetteURLs THEN <<a.target>>
    ELSE <<>>

RECURSIVE CollectAnchors(_)
CollectAnchors(anchors) ==
    IF anchors = <<>> THEN <<>>
    ELSE AnchorURLs(Head(anchors)) \o CollectAnchors(Tail(anchors))

extract_real_urls_from_google(anchors) == Dedup(CollectAnchors(anchors))

\* urls[:n] of Python, n negative or not
Slice(us, n) ==
    IF n >= 0 THEN SubSeq(us, 1, Min(n, Len(us)))
    ELSE SubSeq(us, 1, Len(us) + n)

\* resp is the outcome of the one requests.get: [ok |-> FALSE] when it
\* raised, [ok |-> TRUE, anchors |-> ...] with the anchors of the page otherwise
google_site_search(qry, resp, limit) ==
    IF resp.ok THEN Slice(extract_real_urls_from_google(resp.anchors), limit)
    ELSE <<>>

RECURSIVE LStrip(_)
LStrip(s) == IF s # <<>> /\ IsSpace(Head(s)) THEN LStrip(Tail(s)) ELSE s

RECURSIVE RStrip(_)
RStrip(s) ==
    IF s # <<>> /\ IsSpace(s[Len(s)]) THEN RStrip(SubSeq(s, 1, Len(s) - 1)) ELSE s

\* str.strip()
Strip(s) == RStrip(LStrip(s))

\* any(w in q for w in kws)
AnyIn(q, kws) == \E i \in 1..Len(kws) : Contains(q, kws[i])

\* the default of google_site_search's limit as route_urls_by_query passes it
GoogleLimit == 4

\* the list before deduplication
Prioritized(qry, resp) ==
    LET q == Strip(LowerStr(qry))
        ext(c, kws) == IF AnyIn(q, kws) THEN LAFAYETTE_URL_MAP[c] ELSE <<>>
        p == STATS_PAGES
             \o (IF AnyIn(q, StatsKeywords) THEN STATS_PAGES ELSE <<>>)
             \o ext("admissions", AdmissionsKeywords)
             \o ext("financial", FinancialKeywords)
             \o ext("academics", AcademicsKeywords)
             \o ext("campus", CampusKeywords)
             \o ext("about", AboutKeywords)
             \o ext("president", PresidentKeywords)
             \o google_site_search(qry, resp, GoogleLimit)
    IN  IF Len(p) < 3 THEN p \o FallbackPages ELSE p

route_urls_by_query(qry, resp) == Dedup(Prioritized(qry, resp))

\* the statistics of the texts the web of the session model serves, worked
\* out once
StatsOfPageTexts ==
    [x \in { TxtGlance, TxtOir, TxtCds, TxtPlain, <<>> } |-> ExtractStats(x)]

extract_stats_blob(text) ==
    IF text \in DOMAIN StatsOfPageTexts THEN StatsOfPageTexts[text] ELSE ExtractStats(text)

----------------------------------------------------------------------------
(* Page cache and scrape_url.  Time is counted in hours.                    *)

\* timedelta(hours=24)
CACHE_TTL == 24

\* the mutant of Expired: entries never expire
ExpiredNever(entry, t) == FALSE

\* datetime.utcnow() - entry["ts"] > CACHE_TTL
Expired(entry, t) == t - entry.ts > CACHE_TTL

\* get_cached returns entry["data"], not None
CacheHit(c, url, t) == url \in DOMAIN c /\ ~Expired(c[url], t)

\* the cache after get_cached: an expired entry is popped
CacheAfterGet(c, url, t) ==
    IF url \in DOMAIN c /\ Expired(c[url], t)
    THEN [u \in DOMAIN c \ {url} |-> c[u]]
    ELSE c

put_cached(c, url, data, t) ==
    [u \in DOMAIN c \cup {url} |-> IF u = url THEN [data |-> data, ts |-> t] ELSE c[u]]

\* the cap on a page's text
MaxTextLen == 25000

\* text[:25000]
Truncate(text) == IF Len(text) > MaxTextLen THEN SubSeq(text, 1, MaxTextLen) ELSE text

\* the mutant of FailureResult: the failure is stored like a page
FailureStored(c, url, t, err) ==
    LET data == [url |-> url, text |-> <<>>, stats |-> <<>>, error |-> err]
    IN  [cache |-> put_cached(c, url, data, t), data |-> data, get |-> TRUE]

\* the except branch of scrape_url, c being the cache get_cached left
FailureResult(c, url, t, err) ==
    [cache |-> c,
     data |-> [url |-> url, text |-> <<>>, stats |-> <<>>, error |-> err],
     get |-> TRUE]

\* the end of the try block: put_cached(url, data); return data
StoredResult(c, url, t, data) ==
    [cache |-> put_cached(c, url, data, t), data |-> data, get |-> TRUE]

\* the try block once the GET is out, c being the cache get_cached left
Fetched(c, url, t, outcome) ==
    IF outcome.ok
    THEN StoredResult(c, url, t,
                      [url |-> url, text |-> Truncate(outcome.text),
                       stats |-> extract_stats_blob(Truncate(outcome.text))])
    ELSE FailureResult(c, url, t, outcome.error)

\* scrape_url(url) at time t on cache c.  outcome is what the try block runs
\* into: [ok |-> FALSE, error |-> e] when the GET, raise_for_status or the
\* parsing raises, [ok |-> TRUE, text |-> x] with x the text of the main content.
\* The result names the cache afterwards, the returned dict and whether a GET
\* was issued.
scrape_url(c, url, t, outcome) ==
    IF CacheHit(c, url, t)
    THEN [cache |-> c, data |-> c[url].data, get |-> FALSE]
    ELSE Fetched(CacheAfterGet(c, url, t), url, t, outcome)

----------------------------------------------------------------------------
(* search_lafayette_edu                                                     *)

Fallback ==
    "Lafayette College is a private liberal arts college in Easton, Pennsylvania. For specific statistics (enrollment, student-faculty ratio, etc.), see the At-a-Glance page or the Office of Institutional Research / Common Data Set."

RECURSIVE CombinedText(_)
\* "\n\n".join([f"From {d['url']}:\n{d['text']}" for d in scraped]), the
\* literals and the URL as single tokens
CombinedText(pages) ==
    IF pages = <<>> THEN <<>>
    ELSE LET d == Head(pages)
             piece == <<"From ", d.url, ":\n">> \o d.text
         IN  IF Len(pages) = 1 THEN piece
             ELSE piece \o <<"\n\n">> \o CombinedText(Tail(pages))

\* the mutant of MergeOne: a later page overrides the key
MergeOneOverride(merged, stats) ==
    LET new == { k \in DOMAIN stats : stats[k] # <<>> }
    IN  [k \in DOMAIN merged \cup new |-> IF k \in new THEN stats[k] ELSE merged[k]]

\* the inner loop of the merge: "if v and k not in merged_stats"
MergeOne(merged, stats) ==
    LET new == { k \in DOMAIN stats : stats[k] # <<>> /\ k \notin DOMAIN merged }
    IN  [k \in DOMAIN merged \cup new |-> IF k \in new THEN stats[k] ELSE merged[k]]

RECURSIVE MergeFrom(_, _)
MergeFrom(pages, merged) ==
    IF pages = <<>> THEN merged
    ELSE MergeFrom(Tail(pages), MergeOne(merged, Head(pages).stats))

\* the merge loop
MergeStats(pages) == MergeFrom(pages, <<>>)

\* the mutant of Aggregate: without the "if not scraped" branch
AggregateNoFallback(pages) ==
    [combined_text |-> CombinedText(pages),
     stats |-> MergeStats(pages),
     sources |-> [i \in 1..Len(pages) |-> pages[i].url]]

\* what search_lafayette_edu returns once the loop has filled scraped
Aggregate(pages) ==
    IF pages = <<>>
    THEN [combined_text |-> <<Fallback>>, stats |-> <<>>, sources |-> <<>>]
    ELSE [combined_text |-> CombinedText(pages),
          stats |-> MergeStats(pages),
          sources |-> [i \in 1..Len(pages) |-> pages[i].url]]

\* max_pages of search_lafayette_edu when the caller passes none
DefaultMaxPages == 7

----------------------------------------------------------------------------
(* The Streamlit handler's two ways to end a turn                           *)

\* st.session_state.messages.append({"role": "user", "content": prompt})
AppendUser(msgs, prompt) == Append(msgs, [role |-> "user", content |-> prompt])

\* the try branch: the answer of the graph is appended
AppendAnswer(msgs, response) == Append(msgs, [role |-> "assistant", content |-> response])

ErrorPrefix == "Sorry, I encountered an error while searching Lafayette College information: "

\* the mutant of AppendError: the error is shown and not recorded
AppendErrorDropped(msgs, e) == msgs

\* the except branch: the error placeholder is appended
AppendError(msgs, e) ==
    Append(msgs, [role |-> "assistant", content |-> <<ErrorPrefix, e>>])

----------------------------------------------------------------------------
(* Inputs of the session model                                              *)

\* the clock advances by this many hours at a time
TickHours == 12
\* the clock stops here
MaxTime == 36
\* search_lafayette_edu runs at most this often in one behaviour
MaxCalls == 2
\* a chat history holds at most this many user turns
MaxTurns == 2
\* direct calls pass max_pages from -1 up to this, or the default
MaxPagesArg == 1

\* what the user types into the chat
UIPrompts == { Q_hi }
\* the queries of the direct calls
ApiQueries == { Q_cds }

SearchResponses ==
    { [ok |-> FALSE],
      [ok |-> TRUE,
       anchors |-> << [form |-> "redirect", target |-> "https://news.lafayette.edu/story/"] >>] }

MaxPagesInputs == (-1..MaxPagesArg) \cup {DefaultMaxPages}

\* what requests.get / raise_for_status raise
FetchErrors == { "404 Client Error" }

\* the texts a page of the site may have when it is fetched
PageTexts(u) ==
    IF u = STATS_PAGES[1] THEN { TxtGlance }
    ELSE IF u = STATS_PAGES[2] THEN { TxtOir, <<>> }
    ELSE IF u = STATS_PAGES[3] THEN { TxtCds }
    ELSE { TxtPlain }

Outcomes(u) ==
    { [ok |-> FALSE, error |-> e] : e \in FetchErrors }
    \cup { [ok |-> TRUE, text |-> x] : x \in PageTexts(u) }

NoPayload == [none |-> TRUE]
\* no successful fetch of the URL so far
NoStore == [none |-> TRUE]
\* no scrape_url call in the running search so far
NoCall == [url |-> "", get |-> FALSE, data |-> <<>>, before |-> <<>>, stored |-> NoStore]

----------------------------------------------------------------------------
(* The session: Streamlit turns, direct calls of search_lafayette_edu, the  *)
(* clock                                                                    *)

Init ==
    /\ now = 0
    /\ cache = <<>>
    /\ lastStore = <<>>
    /\ messages = <<>>
    /\ pc = "idle"
    /\ caller = "none"
    /\ query = <<>>
    /\ max_pages = DefaultMaxPages
    /\ urls = <<>>
    /\ idx = 0
    /\ scraped = <<>>
    /\ results = <<>>
    /\ gets = <<>>
    /\ googleReqs = 0
    /\ payload = NoPayload
    /\ last = NoCall
    /\ calls = 0
    /\ inText = <<>> /\ out1 = <<>> /\ out2 = <<>> /\ epc = "off"
    /\ rq = <<>> /\ rresp = [ok |-> FALSE] /\ routed = <<>> /\ rpc = "off"

\* the entry of search_lafayette_edu(q, mp)
Enter(q, mp, who) ==
    /\ calls < MaxCalls
    /\ calls' = calls + 1
    /\ caller' = who
    /\ query' = q
    /\ max_pages' = mp
    /\ urls' = <<>>
    /\ idx' = 0
    /\ scraped' = <<>>
    /\ results' = <<>>
    /\ gets' = <<>>
    /\ googleReqs' = 0
    /\ payload' = NoPayload
    /\ pc' = "routing"
    /\ UNCHANGED <<now, cache, lastStore, last>>

\* the chat input handler up to the call of the graph: the user entry is
\* appended, chatbot calls search_lafayette_edu(user_question)
Submit(prompt) ==
    /\ pc = "idle"
    /\ prompt # <<>>
    /\ Len(messages) < 2 * MaxTurns
    /\ messages' = AppendUser(messages, prompt)
    /\ Enter(prompt, DefaultMaxPages, "ui")
    /\ UNCHANGED <<evars, rvars>>

\* search_lafayette_edu(q, mp) called directly
CallSearch(q, mp) ==
    /\ pc = "idle"
    /\ Enter(q, mp, "api")
    /\ UNCHANGED <<messages, evars, rvars>>

\* urls = route_urls_by_query(query): one request to the search engine
Route(resp) ==
    /\ pc = "routing"
    /\ googleReqs' = googleReqs + 1
    /\ urls' = route_urls_by_query(query, resp)
    /\ pc' = "scraping"
    /\ UNCHANGED <<now, cache, lastStore, messages, caller, query, max_pages, idx,
                   scraped, results, gets, payload, last, calls, evars, rvars>>

\* one pass of "for url in urls[:max_pages]": data = scrape_url(url)
Scrape ==
    /\ pc = "scraping"
    /\ idx < Len(Slice(urls, max_pages))
    /\ LET url == Slice(urls, max_pages)[idx + 1]
       IN  \E outcome \in Outcomes(url) :
             \E r \in { scrape_url(cache, url, now, outcome) } :
                 /\ cache' = r.cache
                 /\ lastStore' =
                       IF r.get /\ "error" \notin DOMAIN r.data
                       THEN [u \in DOMAIN lastStore \cup {url} |->
                                IF u = url THEN [data |-> r.data, at |-> now]
                                ELSE lastStore[u]]
                       ELSE lastStore
                 /\ results' = Append(results, r.data)
                 /\ scraped' = IF r.data.text # <<>> THEN Append(scraped, r.data)
                               ELSE scraped
                 /\ gets' = IF r.get THEN Append(gets, url) ELSE gets
                 /\ last' = [url |-> url, get |-> r.get, data |-> r.data, before |-> cache,
                             stored |-> IF url \in DOMAIN lastStore THEN lastStore[url]
                                        ELSE NoStore]
    /\ idx' = idx + 1
    /\ UNCHANGED <<now, messages, pc, caller, query, max_pages, urls, googleReqs,
                   payload, calls, evars, rvars>>

\* the loop is over: the payload is built
Finish ==
    /\ pc = "scraping"
    /\ idx = Len(Slice(urls, max_pages))
    /\ payload' = Aggregate(scraped)
    /\ pc' = "done"
    /\ UNCHANGED <<now, cache, lastStore, messages, caller, query, max_pages, urls, idx,
                   scraped, results, gets, googleReqs, last, calls, evars, rvars>>

\* search_lafayette_edu returns: its locals are gone; chatbot goes on to
\* llm.invoke, a direct caller is done
Return ==
    /\ pc = "done"
    /\ pc' = IF caller = "ui" THEN "llm" ELSE "idle"
    /\ query' = <<>>
    /\ max_pages' = DefaultMaxPages
    /\ urls' = <<>>
    /\ idx' = 0
    /\ scraped' = <<>>
    /\ results' = <<>>
    /\ gets' = <<>>
    /\ googleReqs' = 0
    /\ payload' = NoPayload
    /\ last' = NoCall
    /\ caller' = IF caller = "ui" THEN "ui" ELSE "none"
    /\ UNCHANGED <<now, cache, lastStore, messages, calls, evars, rvars>>

\* llm.invoke returns and graph.invoke with it: the answer is appended
InvokeOk ==
    /\ pc = "llm"
    /\ messages' = AppendAnswer(messages, <<"answer">>)
    /\ pc' = "idle"
    /\ caller' = "none"
    /\ UNCHANGED <<now, cache, lastStore, query, max_pages, urls, idx, scraped,
                   results, gets, googleReqs, payload, last, calls, evars, rvars>>

\* llm.invoke raises: the except branch of the handler
InvokeFail ==
    /\ pc = "llm"
    /\ messages' = AppendError(messages, "APIError")
    /\ pc' = "idle"
    /\ caller' = "none"
    /\ UNCHANGED <<now, cache, lastStore, query, max_pages, urls, idx, scraped,
                   results, gets, googleReqs, payload, last, calls, evars, rvars>>

\* the "Clear Chat History" button
ClearHistory ==
    /\ pc = "idle"
    /\ messages # <<>>
    /\ messages' = <<>>
    /\ UNCHANGED <<now, cache, lastStore, pc, caller, query, max_pages, urls, idx, scraped,
                   results, gets, googleReqs, payload, last, calls, evars, rvars>>

\* time passes between two searches; a search itself takes well under an hour
Tick ==
    /\ pc = "idle"
    /\ now + TickHours <= MaxTime
    /\ now' = now + TickHours
    /\ UNCHANGED <<cache, lastStore, messages, pc, caller, query, max_pages, urls, idx,
                   scraped, results, gets, googleReqs, payload, last, calls, evars, rvars>>

Next ==
    \/ \E p \in UIPrompts : Submit(p)
    \/ \E q \in ApiQueries, mp \in MaxPagesInputs : CallSearch(q, mp)
    \/ \E resp \in SearchResponses : Route(resp)
    \/ Scrape
    \/ Finish
    \/ Return
    \/ InvokeOk
    \/ InvokeFail
    \/ ClearHistory
    \/ Tick

Spec == Init /\ [][Next]_vars

----------------------------------------------------------------------------
(* extract_stats_blob on its own: the texts are put together from parts     *)

\* a text has at most this many leading filler words
MaxFiller == 1

RECURSIVE Repeat(_, _)
Repeat(s, n) == IF n = 0 THEN <<>> ELSE s \o Repeat(s, n - 1)

RatioNumbers == { <<"9">>, <<"1", "0">>, <<"1">>, <<"1", "2", "3">> }
RatioSeparators ==
    { <<":">>, <<" ", ":", " ">>, <<" ", "t", "o", " ">>, <<"t", "o">>, <<"t">>,
      <<" ", "T", "O", " ">> }
RatioLabels ==
    { S_student \o <<"-">> \o S_faculty,
      S_student \o <<" ">> \o S_to \o <<" ">> \o S_faculty,
      S_faculty \o <<"-">> \o S_student }

ExtractTexts ==
    { Repeat(<<"t", "h", "e", " ">>, f) \o a \o sep \o b \o <<" ">> \o l \o <<" ">> \o S_ratio :
        f \in 0..MaxFiller, a \in RatioNumbers, sep \in RatioSeparators,
        b \in { <<"1">>, <<"1", "2">> }, l \in RatioLabels }
    \cup { TxtGlance, TxtOir, TxtCds, TxtPlain, <<>> }

InitExtract ==
    /\ inText \in ExtractTexts
    /\ out1 = <<>> /\ out2 = <<>> /\ epc = "start"
    /\ now = 0 /\ cache = <<>> /\ lastStore = <<>> /\ messages = <<>> /\ pc = "off"
    /\ caller = "none" /\ query = <<>> /\ max_pages = DefaultMaxPages /\ urls = <<>>
    /\ idx = 0 /\ scraped = <<>> /\ results = <<>> /\ gets = <<>> /\ googleReqs = 0
    /\ payload = NoPayload /\ last = NoCall /\ calls = 0
    /\ rq = <<>> /\ rresp = [ok |-> FALSE] /\ routed = <<>> /\ rpc = "off"

\* stats = extract_stats_blob(text)
Extract ==
    /\ epc = "start"
    /\ out1' = extract_stats_blob(inText)
    /\ epc' = "once"
    /\ UNCHANGED <<inText, out2, svars, rvars>>

\* the same call again on the same text
ExtractAgain ==
    /\ epc = "once"
    /\ out2' = extract_stats_blob(inText)
    /\ epc' = "twice"
    /\ UNCHANGED <<inText, out1, svars, rvars>>

NextExtract == Extract \/ ExtractAgain

SpecExtract == InitExtract /\ [][NextExtract]_vars

----------------------------------------------------------------------------
(* route_urls_by_query on its own                                           *)

\* a query has at most this many words
MaxWords == 2
\* a result page has at most this many anchors
MaxAnchors == 2

RouteWords == { Q_hi, Q_apply, Q_need, Q_ED, Q_aid, Q_why, Q_president, Q_cds }

RECURSIVE JoinWords(_)
\* " ".join(ws)
JoinWords(ws) ==
    IF Len(ws) = 0 THEN <<>>
    ELSE IF Len(ws) = 1 THEN ws[1]
    ELSE ws[1] \o <<" ">> \o JoinWords(Tail(ws))

RouteQueries ==
    { JoinWords(ws) : ws \in UNION { [1..n -> RouteWords] : n \in 1..MaxWords } }
    \cup { <<" ", "\t">> \o Q_Deadline \o <<" ">>, Q_early_decision, Q_major \o <<" ">> \o Q_dining }

Anchors ==
    { [form |-> "redirect", target |-> "https://news.lafayette.edu/story/"],
      [form |-> "direct", target |-> "https://admissions.lafayette.edu/"],
      [form |-> "redirect", target |-> "https://oir.lafayette.edu/"],
      [form |-> "redirect", target |-> ForeignURL] }

\* a page with more lafayette.edu links than the limit, and links that are skipped
LongPage ==
    << [form |-> "other", target |-> "/search?q=x"],
       [form |-> "redirect", target |-> ""],
       [form |-> "redirect", target |-> "https://news.lafayette.edu/story/"],
       [form |-> "redirect", target |-> "https://news.lafayette.edu/story/"],
       [form |-> "direct", target |-> ForeignURL],
       [form |-> "direct", target |-> "https://admissions.lafayette.edu/apply/"],
       [form |-> "redirect", target |-> "https://oir.lafayette.edu/"],
       [form |-> "direct", target |-> "https://registrar.lafayette.edu/calendar/"],
       [form |-> "redirect", target |-> "https://library.lafayette.edu/hours/"] >>

RouteResponses ==
    { [ok |-> FALSE] }
    \cup { [ok |-> TRUE, anchors |-> as] :
             as \in UNION { [1..n -> Anchors] : n \in 0..MaxAnchors } \cup { LongPage } }

InitRoute ==
    /\ rq \in RouteQueries
    /\ rresp \in RouteResponses
    /\ routed = <<>> /\ rpc = "start"
    /\ inText = <<>> /\ out1 = <<>> /\ out2 = <<>> /\ epc = "off"
    /\ now = 0 /\ cache = <<>> /\ lastStore = <<>> /\ messages = <<>> /\ pc = "off"
    /\ caller = "none" /\ query = <<>> /\ max_pages = DefaultMaxPages /\ urls = <<>>
    /\ idx = 0 /\ scraped = <<>> /\ results = <<>> /\ gets = <<>> /\ googleReqs = 0
    /\ payload = NoPayload /\ last = NoCall /\ calls = 0

\* urls = route_urls_by_query(query)
RouteCall ==
    /\ rpc = "start"
    /\ routed' = route_urls_by_query(rq, rresp)
    /\ rpc' = "done"
    /\ UNCHANGED <<rq, rresp, evars, svars>>

NextRoute == RouteCall

SpecRoute == InitRoute /\ [][NextRoute]_vars

----------------------------------------------------------------------------
(* Properties                                                               *)

NoDuplicates(s) == \A i, j \in 1..Len(s) : s[i] = s[j] => i = j

\* the place of the first x in s
FirstIndex(s, x) == CHOOSE i \in 1..Len(s) : s[i] = x /\ \A j \in 1..(i - 1) : s[j] # x

\* p before q wherever both are in s
InOrder(s, p, q) == FirstIndex(s, p) < FirstIndex(s, q)

\* a scrape_url call of the running search has returned
Scraped == pc \in {"scraping", "done"} /\ last.url # ""

\* the result of a scrape_url call that ran into an exception
Failed(d) == "error" \in DOMAIN d

HasText(d) == d.text # <<>>

\* the results of the running search with a text, in scrape order
Surviving == SelectSeq(results, HasText)

\* C1: when scrape_url(u) runs after a successful scrape of u stored its result
\* at time T, then before T + 24h it returns that stored result and issues no
\* GET, after T + 24h it issues a GET, and whatever it returns without a GET is
\* the result stored at most 24 hours earlier.
C1_CacheTTL ==
    Scraped =>
        /\ last.stored # NoStore /\ now < last.stored.at + CACHE_TTL
              => ~last.get /\ last.data = last.stored.data
        /\ last.stored # NoStore /\ now > last.stored.at + CACHE_TTL
              => last.get
        /\ ~last.get
              => /\ last.stored # NoStore
                 /\ now <= last.stored.at + CACHE_TTL
                 /\ last.data = last.stored.data

\* a page is fetched again after its entry went stale, and has changed meanwhile
C1_Witness ==
    /\ Scraped
    /\ last.stored # NoStore
    /\ now > last.stored.at + CACHE_TTL
    /\ last.get
    /\ last.data # last.stored.data

\* C2: the list route_urls_by_query returns holds no URL twice, and holds the
\* URLs of the concatenated list in the order of their first occurrence there.
C2_RoutedUnique ==
    rpc = "done" =>
        \A p \in { Prioritized(rq, rresp) } :
            /\ NoDuplicates(routed)
            /\ Range(routed) = Range(p)
            /\ \A i, j \in 1..Len(routed) : i < j => InOrder(p, routed[i], routed[j])

\* a query that matches two categories sharing a URL with the search results
C2_Witness ==
    /\ rpc = "done"
    /\ rresp.ok
    /\ ~NoDuplicates(Prioritized(rq, rresp))
    /\ Len(routed) >= 8
    /\ Len(Prioritized(rq, rresp)) >= Len(routed) + 2

\* the admissions trigger keywords as the claim lists them
ClaimAdmissionsTriggers ==
    <<
        <<"a", "d", "m", "i", "s", "s", "i", "o", "n">>,
        <<"a", "p", "p", "l", "y">>,
        <<"a", "p", "p", "l", "i", "c", "a", "t", "i", "o", "n">>,
        <<"d", "e", "a", "d", "l", "i", "n", "e">>,
        <<"r", "e", "q", "u", "i", "r", "e", "m", "e", "n", "t">>,
        <<"e", "d">>,
        <<"e", "a", "r", "l", "y", " ", "d", "e", "c", "i", "s", "i", "o", "n">>,
        <<"r", "e", "g", "u", "l", "a", "r", " ", "d", "e", "c", "i", "s", "i", "o", "n">>
    >>

\* C3: for a query whose lowercase form contains an admissions trigger keyword,
\* the routed list holds the five admissions URLs in their declared order, each
\* after the three statistics pages.
C3_AdmissionsRouted ==
    rpc = "done" /\ AnyIn(LowerStr(rq), ClaimAdmissionsTriggers) =>
        /\ \A i \in 1..Len(LAFAYETTE_URL_MAP.admissions) :
              LAFAYETTE_URL_MAP.admissions[i] \in Range(routed)
        /\ \A i, j \in 1..Len(LAFAYETTE_URL_MAP.admissions) :
              i < j => InOrder(routed, LAFAYETTE_URL_MAP.admissions[i],
                               LAFAYETTE_URL_MAP.admissions[j])
        /\ \A k \in 1..Len(STATS_PAGES), i \in 1..Len(LAFAYETTE_URL_MAP.admissions) :
              /\ STATS_PAGES[k] \in Range(routed)
              /\ InOrder(routed, STATS_PAGES[k], LAFAYETTE_URL_MAP.admissions[i])

\* "need aid": "ed" inside a word, the financial category matching too, and the
\* search engine answering with links
C3_Witness ==
    /\ rpc = "done"
    /\ rq = Q_need \o <<" ">> \o Q_aid
    /\ rresp.ok
    /\ rresp.anchors # <<>>
    /\ routed[Len(STATS_PAGES) + 1] = LAFAYETTE_URL_MAP.admissions[1]
    /\ LAFAYETTE_URL_MAP.financial[1] \in Range(routed)

\* C4: when every scrape_url of a search_lafayette_edu call returns an empty
\* text, the call returns the fallback sentence, no stats and no sources.
C4_Fallback ==
    pc = "done" /\ (\A i \in 1..Len(results) : results[i].text = <<>>) =>
        payload = [combined_text |-> <<Fallback>>, stats |-> <<>>, sources |-> <<>>]

\* three pages tried, each fetch failed
C4_Witness ==
    /\ pc = "done"
    /\ Len(results) >= 3
    /\ \A i \in 1..Len(results) : Failed(results[i])
    /\ payload.combined_text = <<Fallback>>

ClaimRatioNumbers == { <<"9">>, <<"1">>, <<"1", "0">>, <<"1", "2">> }

\* the separators the claim names: a colon, the word "to"
ClaimRatioSeparators == { <<":">>, <<" ", "t", "o", " ">> }

\* C6: on a text with a ratio N to M or N:M right before the ratio phrase,
\* extract_stats_blob returns student_faculty_ratio_guess = N:M, and a second
\* run on the same text returns the same mapping.
C6_RatioNormalized ==
    /\ epc \in {"once", "twice"} =>
          \A f \in 0..MaxFiller, a \in ClaimRatioNumbers, b \in ClaimRatioNumbers,
             sep \in ClaimRatioSeparators, l \in RatioLabels :
              inText = Repeat(<<"t", "h", "e", " ">>, f) \o a \o sep \o b \o SP \o l \o SP \o S_ratio
                  => /\ "student_faculty_ratio_guess" \in DOMAIN out1
                     /\ out1.student_faculty_ratio_guess = a \o <<":">> \o b
    /\ epc = "twice" => out2 = out1

\* C7: a search_lafayette_edu call scrapes at most max_pages URLs, a prefix of
\* the routed list in its order, and its sources are the URLs of the results
\* with a text, in that order.
C7_AtMostMaxPages ==
    pc = "done" =>
        /\ Len(results) <= max_pages
        /\ Len(results) <= Len(urls)
        /\ \A i \in 1..Len(results) : results[i].url = urls[i]
        /\ payload.sources = [i \in 1..Len(Surviving) |-> Surviving[i].url]

\* C8: a search_lafayette_edu call issues one search engine request, and per
\* URL at most one GET: none for a URL whose cache entry is younger than 24
\* hours, and no second one after a GET that failed.
C8_NoRetries ==
    /\ pc \in {"scraping", "done"} => googleReqs = 1
    /\ pc = "routing" => googleReqs = 0
    /\ NoDuplicates(gets)
    /\ Len(gets) <= Len(results)
    /\ \A i \in 1..Len(results) : Failed(results[i]) => results[i].url \in Range(gets)
    /\ Scraped /\ last.url \in DOMAIN last.before
          /\ now - last.before[last.url].ts < CACHE_TTL
          => ~last.get /\ last.url \notin Range(gets)

\* a search with a failed GET, a page served from the cache and a page fetched
C8_Witness ==
    /\ pc = "done"
    /\ googleReqs = 1
    /\ Len(results) >= 3
    /\ \E i \in 1..Len(results) : Failed(results[i])
    /\ \E i \in 1..Len(results) : results[i].url \notin Range(gets)
    /\ \E i \in 1..Len(results) : ~Failed(results[i]) /\ results[i].url \in Range(gets)

\* C9: the message history alternates user and assistant entries, starting
\* with a user entry; once a turn is over, whether the invocation answered or
\* failed, every user entry has its assistant entry and the session waits for
\* the next prompt; while a turn runs only its own user entry is open.
C9_Alternation ==
    /\ \A i \in 1..Len(messages) :
          messages[i].role = IF i % 2 = 1 THEN "user" ELSE "assistant"
    /\ pc = "idle" => Len(messages) % 2 = 0
    /\ pc # "idle" /\ caller = "ui" => Len(messages) % 2 = 1
    /\ pc \in {"idle", "routing", "scraping", "done", "llm"}

\* a failed turn followed by an answered one
C9_Witness ==
    /\ pc = "idle"
    /\ Len(messages) = 4
    /\ messages[2].content[1] = ErrorPrefix
    /\ messages[4].content = <<"answer">>

\* C10 as stated: a scrape_url call that fails leaves the page cache as it was.
C10_CacheUnchanged ==
    Scraped /\ Failed(last.data) => cache = last.before

\* C10: a scrape_url(u) call that fails returns an error and an empty text and
\* stores nothing: the cache is as before but for an expired entry of u, which
\* get_cached has removed; no cache entry holds a result with an error; the
\* next scrape_url(u) issues a GET again.
C10_FailureNotCached ==
    /\ \A u \in DOMAIN cache : ~Failed(cache[u].data)
    /\ Scraped /\ Failed(last.data) =>
          /\ last.data.text = <<>>
          /\ last.get
          /\ cache = [u \in DOMAIN last.before \ {last.url} |-> last.before[u]]
          /\ last.url \in DOMAIN last.before
                => now - last.before[last.url].ts > CACHE_TTL
          /\ \A o \in Outcomes(last.url) : scrape_url(cache, last.url, now, o).get

\* a fetch fails for a URL whose entry has expired: the entry is gone
C10_Witness ==
    /\ Scraped
    /\ Failed(last.data)
    /\ last.url \in DOMAIN last.before
    /\ last.url \notin DOMAIN cache
    /\ cache # <<>>

====
